---- MODULE Spec2Model ----
(***************************************************************************)
(* TabularMSA (skbio/alignment/_tabular_msa.py): a row/column container of *)
(* aligned sequences with an optional index of unique keys.                *)
(*                                                                         *)
(* A sequence object is a record [dtype, chars, id]: its concrete class,   *)
(* its characters and the value of metadata['id'].  self._keys is either   *)
(* NoKeys (Python None) or <<array>>, a one-element tuple holding the      *)
(* frozen key array, so that an empty key array differs from no keys.      *)
(* Every method that changes the object is an operator from the object's   *)
(* fields and the call's arguments to [seqs, keys, err]: the fields after  *)
(* the call and the exception raised ("none" when the call returns); every *)
(* method that reads is an operator to [err, value].  The variable ret     *)
(* holds what the last call returned and last names that call.             *)
(*                                                                         *)
(* Spec calls the constructor, append, reindex, the keys accessor, sort,   *)
(* `in` and to_dict on matrices without metadata; SpecMeta constructs with *)
(* metadata and positional metadata; SpecGap counts gaps in rows over a    *)
(* residue and the two gap characters; SpecKeys lets the caller keep and   *)
(* write to the list of keys it passed (the variable caller) and write to  *)
(* the array the keys getter returns; SpecRead constructs a matrix and     *)
(* then only reads it and compares it with other objects.                  *)
(***************************************************************************)
EXTENDS Integers, Sequences, FiniteSets, TLC

VARIABLES _seqs, _keys, _metadata, _positional_metadata, ret, last, caller

vars == <<_seqs, _keys, _metadata, _positional_metadata, ret, last, caller>>

(* ---------------------------- bounds ---------------------------------- *)

\* most rows a matrix is grown to, and most rows given to the constructor
MaxRows == 2

\* most positions of the rows whose gaps are counted
MaxCols == 2

(* ---------------------------- values ---------------------------------- *)

\* Python's None where a key value is expected: a key argument left out, a
\* minter result, a metadata value.  Every other key value is a number >= 0.
None == -1

\* no `minter` / sort `key` argument (None in that position)
NoMinter == "None"

\* self._keys is None, or the `keys` argument is left out
NoKeys == << >>

\* dtype of an empty matrix
NoDtype == "None"

\* classes of sequence objects; Sequence has no alphabet
DTypes == {"DNA", "RNA", "Sequence"}

\* the subclasses of IUPACSequence
IUPACSequence == {"DNA", "RNA"}

\* the sequence objects of the state machine: one per length
Lengths == {0, 1}

Strs == {[i \in 1..n |-> "-"] : n \in Lengths}

\* values of metadata['id']
IdVals == {None, 1, 2}

\* explicit key values a caller passes
KeyVals == {None, 1, 2}

Rows == [dtype : DTypes, chars : Strs, id : IdVals]

\* minters: a metadata key ('id') or a callable (len)
\* the rows whose gaps are counted: DNA over a residue and the two gap
\* characters, of up to MaxCols positions
GapChars == {"-", "."}
Chars == {"A"} \cup GapChars
GapRows ==
    [dtype : {"DNA"}, chars : UNION {[1..n -> Chars] : n \in 0..MaxCols}, id : {None}]

\* the `axis` argument: the two names, the two numbers, something else, and the
\* argument left out
DefaultAxis == "sequence"
Omitted == "omitted"
AxisArgs == {"sequence", "position", "0", "1", "column", Omitted}

Minters == {"id", "len"}

MinterArgs == Minters \cup {NoMinter}

\* lists of at most n elements of S
Lists(S, n) == UNION {[1..m -> S] : m \in 0..n}

\* the `keys` argument: left out, or an iterable of key values
KeysArgs == {NoKeys} \cup {<<l>> : l \in Lists(KeyVals, MaxRows)}

\* metadata=None, and a dict given as metadata
NoMetadata == "None"
MetadataArgs == {NoMetadata, "{'id': 'msa-id'}"}

\* positional_metadata=None, and <<n>>: a table of one column with n entries
NoPositionalMetadata == << >>
PositionalMetadataArgs == {NoPositionalMetadata} \cup {<<n>> : n \in Lengths}

\* what a method without return statement returns
NoRet == "None"

\* the interpreters the module supports (it imports from `future`): Python 2
\* orders None before every other value, Python 3 refuses to order it
Pythons == {"py2", "py3"}

Errors ==
    {"none", "TypeError", "ValueError", "OperationError", "UniqueError", "IndexError"}

\* what a method that reads returns: [err, value], the exception raised and
\* the value returned otherwise
Returned(value) == [err |-> "none", value |-> value]
Raised(err) == [err |-> err, value |-> NoRet]

Result(s, k, e) == [seqs |-> s, keys |-> k, err |-> e]

(* ------------------------- collaborators ------------------------------ *)

\* skbio.util._misc.resolve_key: a callable is applied to the object, anything
\* else is a key into the object's metadata
resolve_key(obj, key) ==
    IF key = "len" THEN Len(obj.chars) ELSE obj.id

\* skbio.util.find_duplicates: the values that occur more than once
find_duplicates(ks) ==
    {ks[i] : i \in {j \in 1..Len(ks) : \E l \in 1..Len(ks) : l # j /\ ks[l] = ks[j]}}

(* --------------------------- properties ------------------------------- *)

len(seqs) == Len(seqs)

dtype(seqs) == IF len(seqs) > 0 THEN seqs[1].dtype ELSE NoDtype

shape(seqs) ==
    [sequence |-> len(seqs),
     position |-> IF len(seqs) > 0 THEN Len(seqs[1].chars) ELSE 0]

\* truthiness taken from the number of rows
__bool___by_rows(seqs) == shape(seqs).sequence > 0

\* bool(msa)
__bool__(seqs) == shape(seqs).position > 0

\* the length a positional metadata table must have
_positional_metadata_axis_len_(seqs) == shape(seqs).position

has_keys(keys) == keys # NoKeys

(* ----------------------------- reindex -------------------------------- *)

\* [err, keys]: the frozen copy of the key list, or UniqueError
_munge_keys(keys) ==
    IF keys # NoKeys
    THEN IF find_duplicates(keys[1]) # {}
         THEN [err |-> "UniqueError", keys |-> NoKeys]
         ELSE [err |-> "none", keys |-> <<keys[1]>>]
    ELSE [err |-> "none", keys |-> NoKeys]

\* reindex storing the candidate keys before they are checked for duplicates
reindex_assign_before_check(seqs, keys, minter, newkeys) ==
    IF minter # NoMinter /\ newkeys # NoKeys
    THEN Result(seqs, keys, "ValueError")
    ELSE LET keys_ == IF minter # NoMinter
                      THEN << [i \in 1..Len(seqs) |-> resolve_key(seqs[i], minter)] >>
                      ELSE newkeys
         IN IF minter = NoMinter /\ newkeys # NoKeys /\ Len(newkeys[1]) # len(seqs)
            THEN Result(seqs, keys, "ValueError")
            ELSE Result(seqs, keys_, _munge_keys(keys_).err)

\* reindex letting the minter win when `keys` is given as well
reindex_minter_wins(seqs, keys, minter, newkeys) ==
    LET keys_ == IF minter # NoMinter
                 THEN << [i \in 1..Len(seqs) |-> resolve_key(seqs[i], minter)] >>
                 ELSE newkeys
    IN IF minter = NoMinter /\ newkeys # NoKeys /\ Len(newkeys[1]) # len(seqs)
       THEN Result(seqs, keys, "ValueError")
       ELSE LET m == _munge_keys(keys_)
            IN IF m.err # "none"
               THEN Result(seqs, keys, m.err)
               ELSE Result(seqs, m.keys, "none")

\* reindex without the comparison of the number of keys with the number of rows
reindex_no_count_check(seqs, keys, minter, newkeys) ==
    IF minter # NoMinter /\ newkeys # NoKeys
    THEN Result(seqs, keys, "ValueError")
    ELSE LET keys_ == IF minter # NoMinter
                      THEN << [i \in 1..Len(seqs) |-> resolve_key(seqs[i], minter)] >>
                      ELSE newkeys
             m == _munge_keys(keys_)
         IN IF m.err # "none"
            THEN Result(seqs, keys, m.err)
            ELSE Result(seqs, m.keys, "none")

\* reindex clearing the keys when a minter is given and there are no rows
reindex_minter_needs_rows(seqs, keys, minter, newkeys) ==
    IF minter # NoMinter /\ newkeys # NoKeys
    THEN Result(seqs, keys, "ValueError")
    ELSE LET keys_ == IF minter # NoMinter
                      THEN IF Len(seqs) = 0 THEN NoKeys
                           ELSE << [i \in 1..Len(seqs) |-> resolve_key(seqs[i], minter)] >>
                      ELSE newkeys
         IN IF minter = NoMinter /\ newkeys # NoKeys /\ Len(newkeys[1]) # len(seqs)
            THEN Result(seqs, keys, "ValueError")
            ELSE LET m == _munge_keys(keys_)
                 IN IF m.err # "none"
                    THEN Result(seqs, keys, m.err)
                    ELSE Result(seqs, m.keys, "none")

reindex(seqs, keys, minter, newkeys) ==
    IF minter # NoMinter /\ newkeys # NoKeys
    THEN Result(seqs, keys, "ValueError")
    ELSE LET keys_ == IF minter # NoMinter
                      THEN << [i \in 1..Len(seqs) |-> resolve_key(seqs[i], minter)] >>
                      ELSE newkeys
         IN IF minter = NoMinter /\ newkeys # NoKeys /\ Len(newkeys[1]) # len(seqs)
            THEN Result(seqs, keys, "ValueError")
            ELSE LET m == _munge_keys(keys_)
                 IN IF m.err # "none"
                    THEN Result(seqs, keys, m.err)
                    ELSE Result(seqs, m.keys, "none")

\* zip(*components): tuples of the i-th elements, as many as the shortest
zip(components) ==
    LET n == IF Len(components) = 0 THEN 0
             ELSE CHOOSE m \in {Len(components[c]) : c \in 1..Len(components)} :
                    \A c \in 1..Len(components) : m <= Len(components[c])
    IN [i \in 1..n |-> [c \in 1..Len(components) |-> components[c][i]]]

(* ------------------------ the stored key array ------------------------ *)

\* list(keys) and np.array(keys, dtype=object, copy=True): the stored array
\* is a copy of the caller's list
copied(keys) == TRUE

\* the flag numpy gives a new array, left as it is
writeable_left_on(keys) == TRUE

\* keys.flags.writeable of the array _munge_keys returns
writeable(keys) == FALSE

\* array[i] = v on the stored array, [err, value]: refused by numpy when the
\* array is not writeable
__setitem__(keys, i, v) ==
    IF ~writeable(keys) THEN Raised("ValueError")
    ELSE Returned(<< [keys[1] EXCEPT ![i] = v] >>)

(* ------------------------------- reads -------------------------------- *)

\* the getter of the property `keys`
\* the getter returning an empty array where there are no keys
keys_getter_empty_when_unkeyed(keys) ==
    IF ~has_keys(keys) THEN Returned(<< >>) ELSE Returned(keys[1])

keys_getter(keys) ==
    IF ~has_keys(keys) THEN Raised("OperationError") ELSE Returned(keys[1])

\* key in msa
__contains__(keys, key) ==
    LET k == keys_getter(keys)
    IN IF k.err # "none" THEN k
       ELSE Returned(\E i \in 1..Len(k.value) : k.value[i] = key)

\* dict(zip(self.keys, self._seqs)) as a function from keys to rows: zip stops at
\* the shorter of the two, a later pair replaces an earlier one of the same key
to_dict(seqs, keys) ==
    LET k == keys_getter(keys)
    IN IF k.err # "none" THEN k
       ELSE LET items == zip(<<k.value, seqs>>)
                at(key) == CHOOSE i \in 1..Len(items) :
                             /\ items[i][1] = key
                             /\ \A j \in (i + 1)..Len(items) : items[j][1] # key
            IN Returned([key \in {items[i][1] : i \in 1..Len(items)} |-> items[at(key)][2]])

(* ------------------------------ append -------------------------------- *)

\* the last branch of _add_sequence: the keys are extended and checked, then
\* the row is appended (reading self.keys raises when there are none)
add_key(seqs, keys, sequence, key) ==
    IF key # None
    THEN IF ~has_keys(keys)
         THEN Result(seqs, keys, "OperationError")
         ELSE LET m == _munge_keys(<< Append(keys[1], key) >>)
              IN IF m.err # "none"
                 THEN Result(seqs, keys, m.err)
                 ELSE Result(Append(seqs, sequence), m.keys, "none")
    ELSE Result(Append(seqs, sequence), keys, "none")

\* the branch of _add_sequence for an empty matrix: the first row needs an
\* alphabet and seeds the keys
add_first(seqs, keys, sequence, key) ==
    IF sequence.dtype \notin IUPACSequence
    THEN Result(seqs, keys, "TypeError")
    ELSE IF key # None
         THEN LET m == _munge_keys(<< <<key>> >>)
              IN IF m.err # "none"
                 THEN Result(seqs, keys, m.err)
                 ELSE Result(<<sequence>>, m.keys, "none")
         ELSE Result(<<sequence>>, keys, "none")

\* _add_sequence without the comparison of lengths
_add_sequence_no_length_check(seqs, keys, sequence, key) ==
    IF len(seqs) = 0 THEN add_first(seqs, keys, sequence, key)
    ELSE IF sequence.dtype # dtype(seqs) THEN Result(seqs, keys, "TypeError")
    ELSE add_key(seqs, keys, sequence, key)

\* _add_sequence testing later rows for an alphabet instead of for the dtype
_add_sequence_any_iupac(seqs, keys, sequence, key) ==
    IF len(seqs) = 0 THEN add_first(seqs, keys, sequence, key)
    ELSE IF sequence.dtype \notin IUPACSequence THEN Result(seqs, keys, "TypeError")
    ELSE IF Len(sequence.chars) # shape(seqs).position
    THEN Result(seqs, keys, "ValueError")
    ELSE add_key(seqs, keys, sequence, key)

\* _add_sequence appending the row before the keys are checked
_add_sequence_row_first(seqs, keys, sequence, key) ==
    IF len(seqs) = 0 THEN add_first(seqs, keys, sequence, key)
    ELSE IF sequence.dtype # dtype(seqs) THEN Result(seqs, keys, "TypeError")
    ELSE IF Len(sequence.chars) # shape(seqs).position
    THEN Result(seqs, keys, "ValueError")
    ELSE LET r == add_key(seqs, keys, sequence, key)
         IN Result(Append(seqs, sequence), r.keys, r.err)

_add_sequence(seqs, keys, sequence, key) ==
    IF len(seqs) = 0 THEN add_first(seqs, keys, sequence, key)
    ELSE IF sequence.dtype # dtype(seqs) THEN Result(seqs, keys, "TypeError")
    ELSE IF Len(sequence.chars) # shape(seqs).position
    THEN Result(seqs, keys, "ValueError")
    ELSE add_key(seqs, keys, sequence, key)

\* append falling back on a remembered minter ('id') when the call names none
append_cached_minter(seqs, keys, sequence, minter, key) ==
    IF key # None /\ minter # NoMinter
    THEN Result(seqs, keys, "ValueError")
    ELSE IF has_keys(keys)
         THEN LET new_key == IF key # None THEN key
                             ELSE IF minter # NoMinter THEN resolve_key(sequence, minter)
                             ELSE resolve_key(sequence, "id")
              IN _add_sequence(seqs, keys, sequence, new_key)
         ELSE IF key # None \/ minter # NoMinter
              THEN Result(seqs, keys, "OperationError")
              ELSE _add_sequence(seqs, keys, sequence, None)

append(seqs, keys, sequence, minter, key) ==
    IF key # None /\ minter # NoMinter
    THEN Result(seqs, keys, "ValueError")
    ELSE IF has_keys(keys)
         THEN IF key = None /\ minter = NoMinter
              THEN Result(seqs, keys, "OperationError")
              ELSE LET new_key == IF key # None THEN key
                                  ELSE resolve_key(sequence, minter)
                   IN _add_sequence(seqs, keys, sequence, new_key)
         ELSE IF key # None \/ minter # NoMinter
              THEN Result(seqs, keys, "OperationError")
              ELSE _add_sequence(seqs, keys, sequence, None)

(* ------------------------------- sort --------------------------------- *)

\* where a stable sort puts x into the sorted list s: behind every element that
\* does not come after it
\* insort putting x in front of the elements it ties with
insort_before_equal(s, x, reverse) ==
    LET p == Cardinality({i \in 1..Len(s) :
                 IF reverse THEN s[i][1] > x[1] ELSE s[i][1] < x[1]})
    IN SubSeq(s, 1, p) \o <<x>> \o SubSeq(s, p + 1, Len(s))

insort(s, x, reverse) ==
    LET p == Cardinality({i \in 1..Len(s) :
                 IF reverse THEN s[i][1] >= x[1] ELSE s[i][1] <= x[1]})
    IN SubSeq(s, 1, p) \o <<x>> \o SubSeq(s, p + 1, Len(s))

RECURSIVE sorted_prefix(_, _, _)
sorted_prefix(items, n, reverse) ==
    IF n = 0 THEN << >>
    ELSE insort(sorted_prefix(items, n - 1, reverse), items[n], reverse)

\* sorted(items, key=operator.itemgetter(0), reverse=reverse): stable, also
\* when reversed
\* sorted(...) sorting in ascending order and reversing the list for reverse=True
sorted_then_reversed(items, reverse) ==
    LET up == sorted_prefix(items, Len(items), FALSE)
    IN IF reverse THEN [i \in 1..Len(up) |-> up[Len(up) + 1 - i]] ELSE up

sorted(items, reverse) == sorted_prefix(items, Len(items), reverse)

\* [err, cols]: the sorted tuples zipped back into columns; comparing None
\* raises TypeError under Python 3
\* _sort_by_first_element sorting in ascending order whatever `reverse` is
_sort_by_first_element_ignoring_reverse(components, reverse, py) ==
    LET items == zip(components)
    IN IF py = "py3" /\ Len(items) > 1 /\ \E i \in 1..Len(items) : items[i][1] = None
       THEN [err |-> "TypeError", cols |-> << >>]
       ELSE [err |-> "none", cols |-> zip(sorted(items, FALSE))]

_sort_by_first_element(components, reverse, py) ==
    LET items == zip(components)
    IN IF py = "py3" /\ Len(items) > 1 /\ \E i \in 1..Len(items) : items[i][1] = None
       THEN [err |-> "TypeError", cols |-> << >>]
       ELSE [err |-> "none", cols |-> zip(sorted(items, reverse))]

\* sort storing the sort keys as the new keys of a matrix with keys
sort_keys_replaced(seqs, keys, key, reverse, py) ==
    IF key = NoMinter /\ ~has_keys(keys)
    THEN Result(seqs, keys, "OperationError")
    ELSE LET sort_keys == IF key = NoMinter THEN keys[1]
                          ELSE [i \in 1..Len(seqs) |-> resolve_key(seqs[i], key)]
         IN IF len(seqs) > 0
            THEN IF has_keys(keys)
                 THEN LET r == _sort_by_first_element(<<sort_keys, seqs, keys[1]>>, reverse, py)
                      IN IF r.err # "none" THEN Result(seqs, keys, r.err)
                         ELSE IF Len(r.cols) # 3 THEN Result(seqs, keys, "ValueError")
                         ELSE LET k == reindex(seqs, keys, NoMinter, << r.cols[1] >>)
                              IN IF k.err # "none" THEN Result(seqs, keys, k.err)
                                 ELSE Result(r.cols[2], k.keys, "none")
                 ELSE LET r == _sort_by_first_element(<<sort_keys, seqs>>, reverse, py)
                      IN IF r.err # "none" THEN Result(seqs, keys, r.err)
                         ELSE IF Len(r.cols) # 2 THEN Result(seqs, keys, "ValueError")
                         ELSE Result(r.cols[2], keys, "none")
            ELSE Result(seqs, keys, "none")

sort(seqs, keys, key, reverse, py) ==
    IF key = NoMinter /\ ~has_keys(keys)
    THEN Result(seqs, keys, "OperationError")
    ELSE LET sort_keys == IF key = NoMinter THEN keys[1]
                          ELSE [i \in 1..Len(seqs) |-> resolve_key(seqs[i], key)]
         IN IF len(seqs) > 0
            THEN IF has_keys(keys)
                 THEN LET r == _sort_by_first_element(<<sort_keys, seqs, keys[1]>>, reverse, py)
                      IN IF r.err # "none" THEN Result(seqs, keys, r.err)
                         ELSE IF Len(r.cols) # 3 THEN Result(seqs, keys, "ValueError")
                         ELSE LET k == reindex(seqs, keys, NoMinter, << r.cols[3] >>)
                              IN IF k.err # "none" THEN Result(seqs, keys, k.err)
                                 ELSE Result(r.cols[2], k.keys, "none")
                 ELSE LET r == _sort_by_first_element(<<sort_keys, seqs>>, reverse, py)
                      IN IF r.err # "none" THEN Result(seqs, keys, r.err)
                         ELSE IF Len(r.cols) # 2 THEN Result(seqs, keys, "ValueError")
                         ELSE Result(r.cols[2], keys, "none")
            ELSE Result(seqs, keys, "none")

(* --------------------------- construction ----------------------------- *)

\* the loop of __init__ over the first n of `sequences`, stopping at the first
\* exception
RECURSIVE add_all(_, _)
add_all(sequences, n) ==
    IF n = 0 THEN Result(<< >>, NoKeys, "none")
    ELSE LET r == add_all(sequences, n - 1)
         IN IF r.err # "none" THEN r
            ELSE _add_sequence(r.seqs, r.keys, sequences[n], None)

\* PositionalMetadataMixin.has_positional_metadata
has_positional_metadata(positional_metadata) ==
    positional_metadata # NoPositionalMetadata

\* PositionalMetadataMixin.__init__: a table is attached only when it has one
\* entry per position
_init_positional_metadata(seqs, positional_metadata) ==
    IF /\ positional_metadata # NoPositionalMetadata
       /\ positional_metadata[1] # _positional_metadata_axis_len_(seqs)
    THEN "ValueError" ELSE "none"

\* the fields of the new object and the exception raised
__init__(sequences, metadata, positional_metadata, minter, keys) ==
    LET r == add_all(sequences, Len(sequences))
        e == IF r.err # "none" THEN r.err
             ELSE _init_positional_metadata(r.seqs, positional_metadata)
        k == IF e # "none" THEN Result(r.seqs, r.keys, e)
             ELSE reindex(r.seqs, r.keys, minter, keys)
    IN [seqs |-> k.seqs, keys |-> k.keys, err |-> k.err,
        metadata |-> metadata, positional_metadata |-> positional_metadata]

(* --------------------------- gap_frequencies -------------------------- *)

\* [err, value]: whether `axis` names the sequence axis
\* _is_sequence_axis with the two axes exchanged
_is_sequence_axis_swapped(axis) ==
    IF axis \in {"position", "1"} THEN Returned(TRUE)
    ELSE IF axis \in {"sequence", "0"} THEN Returned(FALSE)
    ELSE Raised("ValueError")

_is_sequence_axis(axis) ==
    IF axis \in {"sequence", "0"} THEN Returned(TRUE)
    ELSE IF axis \in {"position", "1"} THEN Returned(FALSE)
    ELSE Raised("ValueError")

\* the column i as a sequence: the i-th character of every row
_get_position(seqs, i) ==
    [dtype |-> "Sequence", chars |-> [r \in 1..Len(seqs) |-> seqs[r].chars[i]],
     id |-> None]

\* self.dtype.gap_chars
gap_chars(type) == GapChars

\* sum(viewvalues(seq.frequencies(chars=chars))): how many characters of seq
\* are among chars
frequencies(seq, chars) ==
    Cardinality({i \in 1..Len(seq.chars) : seq.chars[i] \in chars})

\* numpy's float division x / y, the quotient kept as the pair <<x, y>>: 0 / 0
\* is nan and x / 0 is inf for x > 0, neither raises
NaN == <<0, 0>>
Inf == <<1, 0>>
divide(x, y) == IF y # 0 THEN <<x, y>> ELSE IF x = 0 THEN NaN ELSE Inf

\* [err, value]: the array of gap counts, or of their quotients by the length
\* of the axis
\* gap_frequencies counting per row whatever the axis
gap_frequencies_per_row(seqs, axis, relative) ==
    LET a == _is_sequence_axis(axis)
    IN IF a.err # "none" THEN a
       ELSE LET length == shape(seqs).position
                gap_freqs == [j \in 1..Len(seqs) |->
                                frequencies(seqs[j], gap_chars(dtype(seqs)))]
            IN Returned(IF relative
                        THEN [j \in 1..Len(gap_freqs) |-> divide(gap_freqs[j], length)]
                        ELSE gap_freqs)

\* gap_frequencies dividing by the length of the other axis
gap_frequencies_length_swapped(seqs, axis, relative) ==
    LET a == _is_sequence_axis(axis)
    IN IF a.err # "none" THEN a
       ELSE LET seq_iterator ==
                    IF a.value
                    THEN [i \in 1..shape(seqs).position |-> _get_position(seqs, i)]
                    ELSE seqs
                length == IF a.value THEN shape(seqs).position
                          ELSE shape(seqs).sequence
                gap_freqs == [j \in 1..Len(seq_iterator) |->
                                frequencies(seq_iterator[j], gap_chars(dtype(seqs)))]
            IN Returned(IF relative
                        THEN [j \in 1..Len(gap_freqs) |-> divide(gap_freqs[j], length)]
                        ELSE gap_freqs)

gap_frequencies(seqs, axis, relative) ==
    LET a == _is_sequence_axis(axis)
    IN IF a.err # "none" THEN a
       ELSE LET seq_iterator ==
                    IF a.value
                    THEN [i \in 1..shape(seqs).position |-> _get_position(seqs, i)]
                    ELSE seqs
                length == IF a.value THEN shape(seqs).sequence
                          ELSE shape(seqs).position
                gap_freqs == [j \in 1..Len(seq_iterator) |->
                                frequencies(seq_iterator[j], gap_chars(dtype(seqs)))]
            IN Returned(IF relative
                        THEN [j \in 1..Len(gap_freqs) |-> divide(gap_freqs[j], length)]
                        ELSE gap_freqs)

(* ----------------------- dictionaries, equality ----------------------- *)

\* the orders in which a dictionary of the keys S can be iterated
Orders(S) ==
    {o \in [1..Cardinality(S) -> S] : \A k \in S : \E i \in 1..Cardinality(S) : o[i] = k}

\* from_dict pairing the keys with the values in the opposite order
from_dict_values_reversed(dictionary, order) ==
    __init__([i \in 1..Len(order) |-> dictionary[order[Len(order) + 1 - i]]],
             NoMetadata, NoPositionalMetadata, NoMinter, <<order>>)

\* cls(viewvalues(dictionary), keys=viewkeys(dictionary)); `order` is the order
\* in which the dictionary iterates, the same for its keys and its values
from_dict(dictionary, order) ==
    __init__([i \in 1..Len(order) |-> dictionary[order[i]]],
             NoMetadata, NoPositionalMetadata, NoMinter, <<order>>)

\* MetadataMixin.__eq__ and PositionalMetadataMixin.__eq__
_eq_metadata(self, other) == self.metadata = other.metadata
_eq_positional_metadata(self, other) ==
    self.positional_metadata = other.positional_metadata

\* isinstance(other, TabularMSA): a matrix is a record [seqs, keys, metadata,
\* positional_metadata], anything else a record of other fields
isinstance(other) == "seqs" \in DOMAIN other

\* self._seqs == other._seqs, the equality of two Python lists: the same
\* length and equal elements at every index
list_eq(a, b) == Len(a) = Len(b) /\ \A i \in 1..Len(a) : a[i] = b[i]

\* np.asarray(keys).shape: None becomes an array without dimensions
array_shape(keys) == IF keys = NoKeys THEN << >> ELSE <<Len(keys[1])>>

\* np.array_equal(a1, a2): the same shape and equal elements
array_equal(a1, a2) ==
    IF array_shape(a1) # array_shape(a2) THEN FALSE
    ELSE IF a1 = NoKeys THEN TRUE
    ELSE \A i \in 1..Len(a1[1]) : a1[1][i] = a2[1][i]

\* an equality that does not look at the keys
__eq___without_keys(self, other) ==
    IF ~isinstance(other) THEN FALSE
    ELSE IF ~_eq_metadata(self, other) THEN FALSE
    ELSE IF ~_eq_positional_metadata(self, other) THEN FALSE
    ELSE list_eq(self.seqs, other.seqs)

\* self == other for an object [seqs, keys, metadata, positional_metadata]
__eq__(self, other) ==
    IF ~isinstance(other) THEN FALSE
    ELSE IF ~_eq_metadata(self, other) THEN FALSE
    ELSE IF ~_eq_positional_metadata(self, other) THEN FALSE
    ELSE list_eq(self.seqs, other.seqs) /\ array_equal(self.keys, other.keys)

\* self != other
__ne__(self, other) == ~__eq__(self, other)

(* ----------------------------- actions -------------------------------- *)

\* the list of keys the caller holds after passing it to the matrix, and
\* whether the stored keys are that very list; any call that stores new keys
\* ends the sharing
NoCaller == [keys |-> NoKeys, shared |-> FALSE]
unshared(err) == IF err = "none" THEN [caller EXCEPT !.shared = FALSE] ELSE caller
held(keys, err) ==
    [keys |-> keys, shared |-> keys # NoKeys /\ err = "none" /\ ~copied(keys)]

\* which of the two keying arguments a call was given
how(minter, keys) ==
    IF minter # NoMinter
    THEN IF keys THEN "both" ELSE "minter"
    ELSE IF keys THEN "keys" ELSE "neither"

\* the matrix as an object
this == [seqs |-> _seqs, keys |-> _keys, metadata |-> _metadata,
         positional_metadata |-> _positional_metadata]

\* an object exists once __init__ has returned
constructed == ~(last.op = "new" \/ (last.op = "__init__" /\ last.err # "none"))

Init ==
    /\ _seqs = << >>
    /\ _keys = NoKeys
    /\ _metadata = NoMetadata
    /\ _positional_metadata = NoPositionalMetadata
    /\ ret = NoRet
    /\ caller = NoCaller
    /\ last = [op |-> "new", err |-> "none", how |-> "neither"]

\* TabularMSA(sequences, metadata, positional_metadata, minter, keys) with the
\* rows and the arguments drawn from the given sets; with `kept` the caller
\* keeps the list of keys it passed
ConstructWith(rows, metadatas, positional_metadatas, minters, keyss, kept) ==
    /\ last.op = "new"
    /\ \E sequences \in Lists(rows, MaxRows), metadata \in metadatas,
          positional_metadata \in positional_metadatas,
          minter \in minters, keys \in keyss :
         LET r == __init__(sequences, metadata, positional_metadata, minter, keys)
         IN /\ last' = [op |-> "__init__", err |-> r.err,
                        how |-> how(minter, keys # NoKeys)]
            /\ ret' = NoRet
            /\ caller' = IF kept THEN held(keys, r.err) ELSE caller
            /\ IF r.err = "none"
               THEN /\ _seqs' = r.seqs /\ _keys' = r.keys
                    /\ _metadata' = r.metadata
                    /\ _positional_metadata' = r.positional_metadata
               ELSE UNCHANGED <<_seqs, _keys, _metadata, _positional_metadata>>

\* TabularMSA(sequences, minter=..., keys=...)
Construct ==
    ConstructWith(Rows, {NoMetadata}, {NoPositionalMetadata}, MinterArgs, KeysArgs,
                  FALSE)

\* msa.append(sequence, minter, key) with the row drawn from the given set
AppendWith(rows) ==
    /\ constructed
    /\ \E sequence \in rows, minter \in MinterArgs, key \in KeyVals :
         LET r == append(_seqs, _keys, sequence, minter, key)
         IN /\ len(r.seqs) <= MaxRows
            /\ _seqs' = r.seqs
            /\ _keys' = r.keys
            /\ UNCHANGED <<_metadata, _positional_metadata>>
            /\ ret' = NoRet
            /\ caller' = unshared(r.err)
            /\ last' = [op |-> "append", err |-> r.err, how |-> "neither"]

AppendCall == AppendWith(Rows)

\* msa.reindex(minter, keys)
ReindexWith(minters, keyss, kept) ==
    /\ constructed
    /\ \E minter \in minters, keys \in keyss :
         LET r == reindex(_seqs, _keys, minter, keys)
         IN /\ _seqs' = r.seqs
            /\ _keys' = r.keys
            /\ UNCHANGED <<_metadata, _positional_metadata>>
            /\ ret' = NoRet
            /\ caller' = IF kept THEN held(keys, r.err) ELSE unshared(r.err)
            /\ last' = [op |-> "reindex", err |-> r.err,
                        how |-> how(minter, keys # NoKeys)]

Reindex == ReindexWith(MinterArgs, KeysArgs, FALSE)

\* msa.keys = value
KeysSetWith(keyss, kept) ==
    /\ constructed
    /\ \E keys \in keyss :
         LET r == reindex(_seqs, _keys, NoMinter, keys)
         IN /\ _seqs' = r.seqs
            /\ _keys' = r.keys
            /\ UNCHANGED <<_metadata, _positional_metadata>>
            /\ ret' = NoRet
            /\ caller' = IF kept THEN held(keys, r.err) ELSE unshared(r.err)
            /\ last' = [op |-> "keys.setter", err |-> r.err,
                        how |-> how(NoMinter, keys # NoKeys)]

KeysSet == KeysSetWith(KeysArgs, FALSE)

\* del msa.keys
KeysDel ==
    /\ constructed
    /\ LET r == reindex(_seqs, _keys, NoMinter, NoKeys)
       IN /\ _seqs' = r.seqs
          /\ _keys' = r.keys
          /\ UNCHANGED <<_metadata, _positional_metadata>>
          /\ ret' = NoRet
          /\ caller' = unshared(r.err)
          /\ last' = [op |-> "keys.deleter", err |-> r.err, how |-> "neither"]

Sort ==
    /\ constructed
    /\ \E key \in MinterArgs, reverse \in BOOLEAN, py \in Pythons :
         LET r == sort(_seqs, _keys, key, reverse, py)
         IN /\ _seqs' = r.seqs
            /\ _keys' = r.keys
            /\ UNCHANGED <<_metadata, _positional_metadata>>
            /\ ret' = NoRet
            /\ caller' = unshared(r.err)
            /\ last' = [op |-> "sort", err |-> r.err, how |-> "neither"]

\* msa.keys
KeysGet ==
    /\ constructed
    /\ LET r == keys_getter(_keys)
       IN /\ ret' = r.value
          /\ last' = [op |-> "keys.getter", err |-> r.err, how |-> "neither"]
    /\ UNCHANGED <<_seqs, _keys, _metadata, _positional_metadata, caller>>

\* key in msa
Contains ==
    /\ constructed
    /\ \E key \in KeyVals :
         LET r == __contains__(_keys, key)
         IN /\ ret' = r.value
            /\ last' = [op |-> "__contains__", err |-> r.err, how |-> "neither"]
    /\ UNCHANGED <<_seqs, _keys, _metadata, _positional_metadata, caller>>

\* msa.to_dict()
ToDict ==
    /\ constructed
    /\ LET r == to_dict(_seqs, _keys)
       IN /\ ret' = r.value
          /\ last' = [op |-> "to_dict", err |-> r.err, how |-> "neither"]
    /\ UNCHANGED <<_seqs, _keys, _metadata, _positional_metadata, caller>>

Next ==
    \/ Construct \/ AppendCall \/ Reindex \/ KeysSet \/ KeysDel \/ Sort
    \/ KeysGet \/ Contains \/ ToDict

Spec == Init /\ [][Next]_vars

\* TabularMSA(sequences, metadata=..., positional_metadata=..., minter=...,
\* keys=...)
ConstructMeta ==
    ConstructWith(Rows, MetadataArgs, PositionalMetadataArgs, MinterArgs, KeysArgs,
                  FALSE)

NextMeta == ConstructMeta \/ AppendCall \/ ToDict

\* the matrices that carry metadata, grown by append and read by to_dict
SpecMeta == Init /\ [][NextMeta]_vars

\* TabularMSA(sequences) over the rows whose gaps are counted
ConstructGap ==
    ConstructWith(GapRows, {NoMetadata}, {NoPositionalMetadata}, {NoMinter}, {NoKeys},
                  FALSE)

\* msa.gap_frequencies(axis, relative); last keeps the arguments of the call
GapFrequencies ==
    /\ constructed
    /\ \E axis \in AxisArgs, relative \in BOOLEAN :
         LET r == gap_frequencies(_seqs, IF axis = Omitted THEN DefaultAxis ELSE axis,
                                  relative)
         IN /\ ret' = r.value
            /\ last' = [op |-> "gap_frequencies", err |-> r.err, how |-> "neither",
                        axis |-> axis, relative |-> relative]
    /\ UNCHANGED <<_seqs, _keys, _metadata, _positional_metadata, caller>>

NextGap == ConstructGap \/ GapFrequencies

\* the matrices whose gaps are counted
SpecGap == Init /\ [][NextGap]_vars

\* the rows and the lists of keys of the matrices whose keys are written to
KeyRows == [dtype : {"DNA"}, chars : {<< >>}, id : IdVals \ {None}]
KeyLists == {NoKeys} \cup {<<l>> : l \in Lists(KeyVals \ {None}, MaxRows)}

\* the calls after which the caller keeps the list of keys it passed
ConstructKept ==
    ConstructWith(KeyRows, {NoMetadata}, {NoPositionalMetadata}, MinterArgs, KeyLists,
                  TRUE)
ReindexKept == ReindexWith(MinterArgs, KeyLists, TRUE)
KeysSetKept == KeysSetWith(KeyLists, TRUE)
AppendKeyRow == AppendWith(KeyRows)

\* msa.keys[i] = v: the getter returns the stored array itself
KeysWrite ==
    /\ constructed
    /\ \E i \in 1..MaxRows, v \in KeyVals \ {None} :
         /\ has_keys(_keys) => i <= Len(_keys[1])
         /\ LET k == keys_getter(_keys)
                r == IF k.err # "none" THEN k ELSE __setitem__(_keys, i, v)
            IN /\ _keys' = IF r.err = "none" THEN r.value ELSE _keys
               /\ caller' = IF r.err = "none" /\ caller.shared
                            THEN [caller EXCEPT !.keys = r.value] ELSE caller
               /\ last' = [op |-> "keys.__setitem__", err |-> r.err, how |-> "neither"]
    /\ ret' = NoRet
    /\ UNCHANGED <<_seqs, _metadata, _positional_metadata>>

\* the caller writes to the list it passed as keys: l[i] = v
CallerWrite ==
    /\ constructed
    /\ caller.keys # NoKeys
    /\ \E i \in 1..Len(caller.keys[1]), v \in KeyVals \ {None} :
         LET l == << [caller.keys[1] EXCEPT ![i] = v] >>
         IN /\ caller' = [caller EXCEPT !.keys = l]
            /\ _keys' = IF caller.shared THEN l ELSE _keys
    /\ last' = [op |-> "caller.write", err |-> "none", how |-> "neither"]
    /\ ret' = NoRet
    /\ UNCHANGED <<_seqs, _metadata, _positional_metadata>>

NextKeys ==
    \/ ConstructKept \/ ReindexKept \/ KeysSetKept \/ KeysDel \/ AppendKeyRow \/ Sort
    \/ KeysGet \/ Contains \/ ToDict \/ KeysWrite \/ CallerWrite

\* the matrices whose callers keep and write to the keys they passed
SpecKeys == Init /\ [][NextKeys]_vars

\* the rows of the matrices that are read and compared
ReadRows == [dtype : {"DNA"}, chars : {<<"A">>, <<"-">>}, id : {None}]

\* TabularMSA(sequences, metadata=..., positional_metadata=..., keys=...) over
\* those rows
ConstructRead ==
    ConstructWith(ReadRows, MetadataArgs, PositionalMetadataArgs, {NoMinter}, KeyLists,
                  FALSE)

\* what a matrix is compared with: the matrices the constructor builds from
\* the same arguments, and lists of rows, which are no matrices
Matrices ==
    {[seqs |-> r.seqs, keys |-> r.keys, metadata |-> r.metadata,
      positional_metadata |-> r.positional_metadata] :
        r \in {x \in {__init__(s, m, p, NoMinter, k) :
                        s \in Lists(ReadRows, MaxRows), m \in MetadataArgs,
                        p \in PositionalMetadataArgs, k \in KeyLists} :
                 x.err = "none"}}
NonMatrices == {[list |-> s] : s \in Lists(ReadRows, MaxRows)}
Others == Matrices \cup NonMatrices

\* a call that reads: it returns value or raises err, and assigns nothing
Read(op, r) ==
    /\ constructed
    /\ ret' = r.value
    /\ last' = [op |-> op, err |-> r.err, how |-> "neither"]
    /\ UNCHANGED <<_seqs, _keys, _metadata, _positional_metadata, caller>>

\* msa.shape, msa.dtype, len(msa), msa.has_keys()
Shape == Read("shape", Returned(shape(_seqs)))
DType == Read("dtype", Returned(dtype(_seqs)))
Length == Read("__len__", Returned(len(_seqs)))
HasKeys == Read("has_keys", Returned(has_keys(_keys)))

\* an iteration that takes the rows off the list it walks
Iter_draining ==
    /\ constructed
    /\ ret' = _seqs
    /\ _seqs' = << >>
    /\ last' = [op |-> "__iter__", err |-> "none", how |-> "neither"]
    /\ UNCHANGED <<_keys, _metadata, _positional_metadata, caller>>

\* iter(msa), walked to its end: the rows in their order
Iter == Read("__iter__", Returned(_seqs))

\* msa == other and msa != other; last keeps the object compared with
Eq ==
    /\ constructed
    /\ \E other \in Others :
         /\ ret' = __eq__(this, other)
         /\ last' = [op |-> "__eq__", err |-> "none", how |-> "neither",
                     other |-> other]
    /\ UNCHANGED <<_seqs, _keys, _metadata, _positional_metadata, caller>>

Ne ==
    /\ constructed
    /\ \E other \in Others :
         /\ ret' = __ne__(this, other)
         /\ last' = [op |-> "__ne__", err |-> "none", how |-> "neither",
                     other |-> other]
    /\ UNCHANGED <<_seqs, _keys, _metadata, _positional_metadata, caller>>

\* msa.gap_frequencies(axis, relative) on the rows that are read
GapFrequenciesRead ==
    \E axis \in AxisArgs \ {Omitted}, relative \in BOOLEAN :
        Read("gap_frequencies", gap_frequencies(_seqs, axis, relative))

\* msa._get_position(i), i counted from 1: s[i] raises IndexError past the
\* end of a row
GetPosition ==
    \E i \in 1..(MaxCols + 1) :
        Read("_get_position",
             IF \E r \in 1..Len(_seqs) : i > Len(_seqs[r].chars)
             THEN Raised("IndexError")
             ELSE Returned(_get_position(_seqs, i)))

NextRead ==
    \/ ConstructRead \/ Shape \/ DType \/ Length \/ HasKeys \/ KeysGet \/ Contains
    \/ Iter \/ Eq \/ Ne \/ ToDict \/ GapFrequenciesRead \/ GetPosition

\* the matrices that are only read after their construction
SpecRead == Init /\ [][NextRead]_vars

(* ------------------------------ claims -------------------------------- *)

\* the key a call of append names: the explicit key, else the minter resolved
\* against the new row
named_key(sequence, minter, key) ==
    IF key # None THEN key ELSE resolve_key(sequence, minter)

\* C1: in every reachable state all stored rows have the dtype and the length
\* of the first one, shape.position is that length (0 without rows) and
\* shape.sequence is the number of stored rows.
C1_RowsHomogeneous ==
    /\ \A i \in 1..Len(_seqs) :
         /\ _seqs[i].dtype = dtype(_seqs)
         /\ Len(_seqs[i].chars) = shape(_seqs).position
    /\ \A i, j \in 1..Len(_seqs) :
         /\ _seqs[i].dtype = _seqs[j].dtype
         /\ Len(_seqs[i].chars) = Len(_seqs[j].chars)
    /\ shape(_seqs).sequence = Len(_seqs)
    /\ (Len(_seqs) = 0 => shape(_seqs).position = 0)

\* C1 witness: a second row was appended to a matrix, after which the matrix
\* holds two rows of one position each.
C1_Witness ==
    /\ last.op = "append" /\ last.err = "none"
    /\ Len(_seqs) = 2 /\ shape(_seqs).position = 1

\* C2: in every reachable state the keys are absent, or there is one key per
\* row and the keys are pairwise distinct.
C2_KeysAbsentOrOnePerRow ==
    has_keys(_keys) =>
        /\ Len(_keys[1]) = Len(_seqs)
        /\ \A i, j \in 1..Len(_keys[1]) : i # j => _keys[1][i] # _keys[1][j]

\* C3: a reindex call (also through the keys setter) that raises leaves rows
\* and keys as they were before the call.
C3_ReindexFailureKeepsState ==
    [][(last'.op \in {"reindex", "keys.setter", "keys.deleter"} /\ last'.err # "none")
         => (_seqs' = _seqs /\ _keys' = _keys)]_vars

\* C3 witness: reindex raised UniqueError on a matrix of two rows that has keys,
\* and the two keys are in place.
C3_Witness ==
    /\ last.op = "reindex" /\ last.err = "UniqueError"
    /\ has_keys(_keys) /\ Len(_seqs) = 2 /\ Len(_keys[1]) = 2

\* C4: an append call that raises leaves the rows and the keys as they were
\* before the call.
C4_AppendFailureKeepsState ==
    [][(last'.op = "append" /\ last'.err # "none")
         => (_seqs' = _seqs /\ _keys' = _keys)]_vars

\* C4 witness: append raised UniqueError on a keyed matrix that has a row.
C4_Witness ==
    /\ last.op = "append" /\ last.err = "UniqueError"
    /\ has_keys(_keys) /\ Len(_seqs) >= 1 /\ Len(_keys[1]) = Len(_seqs)

\* C5: a successful append puts the new row behind the stored rows and, on a
\* keyed matrix, the new key behind the stored keys; the stored rows and keys
\* keep their places.
C5_AppendAtEnd ==
    constructed =>
      \A sequence \in Rows, minter \in MinterArgs, key \in KeyVals :
        LET r == append(_seqs, _keys, sequence, minter, key)
        IN r.err = "none" =>
             /\ r.seqs = Append(_seqs, sequence)
             /\ has_keys(_keys) =>
                  r.keys = << Append(_keys[1], named_key(sequence, minter, key)) >>
             /\ ~has_keys(_keys) => r.keys = NoKeys

\* the keying arguments of an append call fit the matrix: not both, and one of
\* them exactly when the matrix has keys
keying_fits(keys, minter, key) ==
    /\ ~(key # None /\ minter # NoMinter)
    /\ has_keys(keys) <=> (key # None \/ minter # NoMinter)

\* the error the loop of the constructor ends with: that of the first row that
\* does not fit the rows before it, the dtype being looked at before the length
first_misfit(sequences) ==
    IF Len(sequences) = 0 THEN "none"
    ELSE IF sequences[1].dtype \notin IUPACSequence THEN "TypeError"
    ELSE LET bad == {i \in 2..Len(sequences) :
                       \/ sequences[i].dtype # sequences[1].dtype
                       \/ Len(sequences[i].chars) # Len(sequences[1].chars)}
         IN IF bad = {} THEN "none"
            ELSE LET i == CHOOSE m \in bad : \A n \in bad : m <= n
                 IN IF sequences[i].dtype # sequences[1].dtype
                    THEN "TypeError" ELSE "ValueError"

C7_AppendRespectsKeying ==
    constructed =>
      \A sequence \in Rows, minter \in MinterArgs, key \in KeyVals :
        LET r == append(_seqs, _keys, sequence, minter, key)
        IN /\ (~has_keys(_keys) /\ (key # None \/ minter # NoMinter))
                => r.err = "OperationError"
           /\ (has_keys(_keys) /\ key = None /\ minter = NoMinter)
                => r.err = "OperationError"
           /\ (/\ has_keys(_keys) /\ r.err = "none"
               /\ (key # None) # (minter # NoMinter))
                => /\ has_keys(r.keys)
                   /\ Len(r.keys[1]) = Len(_keys[1]) + 1
                   /\ r.keys[1][Len(r.keys[1])] = named_key(sequence, minter, key)

\* C8: append raises OperationError when it is given a key and a minter.
C8_KeyAndMinterOperationError ==
    constructed =>
      \A sequence \in Rows, minter \in Minters, key \in KeyVals \ {None} :
        append(_seqs, _keys, sequence, minter, key).err = "OperationError"

\* C9 as stated: after construction or reindex with a minter, an append that
\* names neither key nor minter succeeds for a row that fits, and adds a key.
C9_MinterRemembered ==
    (/\ constructed /\ last.op \in {"__init__", "reindex"}
     /\ last.how = "minter" /\ last.err = "none") =>
      \A sequence \in Rows :
        _add_sequence(_seqs, NoKeys, sequence, None).err = "none" =>
          LET r == append(_seqs, _keys, sequence, NoMinter, None)
          IN /\ r.err = "none"
             /\ has_keys(r.keys) /\ Len(r.keys[1]) = Len(_keys[1]) + 1

\* C9 amended: no minter is remembered.  On a matrix with keys, however it was
\* keyed, an append that names neither key nor minter raises OperationError
\* and leaves rows and keys as they were.
C9_MinterNotRemembered ==
    (constructed /\ has_keys(_keys)) =>
      \A sequence \in Rows :
        append(_seqs, _keys, sequence, NoMinter, None)
          = Result(_seqs, _keys, "OperationError")

\* C9 witness: the matrix has just been keyed by a minter, and an append of a
\* fitting row without key and minter raises OperationError.
C9_Witness ==
    /\ last.op = "reindex" /\ last.how = "minter" /\ last.err = "none"
    /\ has_keys(_keys) /\ Len(_seqs) = 1
    /\ \E sequence \in Rows :
         /\ _add_sequence(_seqs, NoKeys, sequence, None).err = "none"
         /\ append(_seqs, _keys, sequence, NoMinter, None).err = "OperationError"

KeyReads == {"keys.getter", "__contains__", "to_dict"}

\* C12: a matrix is unkeyed after construction without minter and keys, after
\* reindex() with neither and after deleting the keys; while it is unkeyed,
\* has_keys() is false and reading the keys accessor, the `in` test, to_dict
\* and sort() without a rule raise OperationError and leave rows and keys as
\* they were; after a successful reindex with a rule or explicit keys has_keys()
\* is true again.
C12_UnkeyedState ==
    /\ (last.op \in {"__init__", "reindex", "keys.setter", "keys.deleter"}
        /\ last.how = "neither" /\ last.err = "none") => ~has_keys(_keys)
    /\ (last.op \in {"reindex", "keys.setter"} /\ last.how \in {"minter", "keys"}
        /\ last.err = "none") => has_keys(_keys)
    /\ (last.op \in KeyReads /\ ~has_keys(_keys))
         => (last.err = "OperationError" /\ ret = NoRet)
    /\ (constructed /\ ~has_keys(_keys)) =>
         /\ keys_getter(_keys) = Raised("OperationError")
         /\ \A key \in KeyVals : __contains__(_keys, key) = Raised("OperationError")
         /\ to_dict(_seqs, _keys) = Raised("OperationError")
         /\ \A reverse \in BOOLEAN, py \in Pythons :
              sort(_seqs, _keys, NoMinter, reverse, py)
                = Result(_seqs, _keys, "OperationError")

C12_UnkeyedRaisesOperationError ==
    /\ []C12_UnkeyedState
    /\ [][(last'.op \in KeyReads
            \/ (last'.op = "sort" /\ last'.err = "OperationError"))
            => UNCHANGED <<_seqs, _keys>>]_vars

\* C12 witness: to_dict was called on a matrix with two rows and no keys, and
\* raised OperationError.
C12_Witness ==
    /\ last.op = "to_dict" /\ last.err = "OperationError"
    /\ Len(_seqs) = 2 /\ ~has_keys(_keys)

\* how often a row occurs among the rows
count(seqs, row) == Cardinality({i \in 1..Len(seqs) : seqs[i] = row})

\* the (key, row) pairs of a matrix with keys, paired by index
pairs(seqs, keys) ==
    LET items == zip(<<keys[1], seqs>>)
    IN {items[i] : i \in 1..Len(items)}

\* C13: a call of sort, whatever its arguments and whether it returns or
\* raises, leaves the multiset of rows as it was, and on a matrix with keys it
\* leaves the number of keys and the set of (key, row) pairs as they were: rows
\* and keys are permuted together and the sort keys of an explicit rule never
\* become the keys.
C13_SortPermutesInLockstep ==
    [][last'.op = "sort" =>
         /\ Len(_seqs') = Len(_seqs)
         /\ \A i \in 1..Len(_seqs) : count(_seqs', _seqs[i]) = count(_seqs, _seqs[i])
         /\ has_keys(_keys') = has_keys(_keys)
         /\ has_keys(_keys) =>
              /\ Len(_keys'[1]) = Len(_keys[1])
              /\ pairs(_seqs', _keys') = pairs(_seqs, _keys)]_vars

\* C13 witness: a sort has returned on a matrix of two rows whose keys differ
\* from the values the rule 'id' gives; the rows are in the order of the rule
\* and the keys are still the keys.
C13_Witness ==
    /\ last.op = "sort" /\ last.err = "none"
    /\ has_keys(_keys) /\ Len(_seqs) = 2
    /\ _keys[1] = <<2, 1>>
    /\ _seqs[1].id = 1 /\ _seqs[2].id = 2

\* the sort keys of the rows in row order: the keys of the matrix when sort is
\* given no rule, else what the rule gives for each row
sort_keys_of(seqs, keys, key) ==
    IF key = NoMinter THEN keys[1]
    ELSE [i \in 1..Len(seqs) |-> resolve_key(seqs[i], key)]

ordered(ks, reverse) ==
    \A i \in 1..(Len(ks) - 1) :
      IF reverse THEN ks[i] >= ks[i + 1] ELSE ks[i] <= ks[i + 1]

\* C14: after a sort that returns, the sort keys of the rows read in row order
\* are non-decreasing, and non-increasing when reverse=True.
C14_SortOrdersRows ==
    constructed =>
      \A key \in MinterArgs, reverse \in BOOLEAN, py \in Pythons :
        LET r == sort(_seqs, _keys, key, reverse, py)
        IN r.err = "none" => ordered(sort_keys_of(r.seqs, r.keys, key), reverse)

\* C14 witness: a sorted matrix whose keys read 2, 1; sort() gives them as
\* 1, 2 and sort(reverse=True) as 2, 1, the rows following their keys.
C14_Witness ==
    /\ last.op = "sort" /\ last.err = "none"
    /\ has_keys(_keys) /\ Len(_seqs) = 2 /\ _keys[1] = <<2, 1>>
    /\ sort(_seqs, _keys, NoMinter, FALSE, "py3")
         = Result(<<_seqs[2], _seqs[1]>>, << <<1, 2>> >>, "none")
    /\ sort(_seqs, _keys, NoMinter, TRUE, "py3") = Result(_seqs, _keys, "none")
    /\ _seqs[1] # _seqs[2]

\* the tuples sort compares, in row order: <<sort key, row, key>> on a matrix
\* with keys, else <<sort key, row>>
sort_items(seqs, keys, key) ==
    zip(IF has_keys(keys) THEN <<sort_keys_of(seqs, keys, key), seqs, keys[1]>>
        ELSE <<sort_keys_of(seqs, keys, key), seqs>>)

\* the tuples whose sort key is k, in the order they have in items
tied(items, k) ==
    LET is_k(x) == x[1] = k
    IN SelectSeq(items, is_k)

\* rows with equal sort keys are in the same relative order before and after
stable(before, after) ==
    \A k \in {before[i][1] : i \in 1..Len(before)} : tied(after, k) = tied(before, k)

\* C15: a sort with reverse=False that returns leaves rows with equal sort
\* keys in their relative order; a rule under which all rows tie leaves the
\* rows as they are and raises nothing, as the rows are never compared.
C15_SortStable ==
    constructed =>
      \A key \in MinterArgs, py \in Pythons :
        LET r == sort(_seqs, _keys, key, FALSE, py)
        IN /\ r.err = "none" =>
                stable(sort_items(_seqs, _keys, key), sort_items(r.seqs, r.keys, key))
           /\ (key = "len" /\ (has_keys(_keys) => Len(_keys[1]) = Len(_seqs)))
                => r = Result(_seqs, _keys, "none")

\* C15 witness: two different rows of equal length without keys, in an order a
\* sort has left; sort('len') ties them and keeps their order.
C15_Witness ==
    /\ last.op = "sort" /\ last.err = "none"
    /\ ~has_keys(_keys) /\ Len(_seqs) = 2 /\ _seqs[1] # _seqs[2]
    /\ _seqs[1].id > _seqs[2].id
    /\ sort(_seqs, _keys, "len", FALSE, "py3") = Result(_seqs, _keys, "none")

\* C16 as stated: sort(reverse=True) yields the reverse of what the ascending
\* sort yields, so that tied rows end in the reverse of their original order.
C16_ReverseIsSortThenReverse ==
    constructed =>
      \A key \in MinterArgs, py \in Pythons :
        LET up == sort(_seqs, _keys, key, FALSE, py)
            down == sort(_seqs, _keys, key, TRUE, py)
        IN (up.err = "none" /\ down.err = "none") =>
             /\ Len(down.seqs) = Len(up.seqs)
             /\ \A i \in 1..Len(up.seqs) : down.seqs[i] = up.seqs[Len(up.seqs) + 1 - i]

\* C16 amended: sort(reverse=True) is a stable descending sort: rows with
\* equal sort keys keep their original relative order, and a rule under which
\* all rows tie leaves the rows as they are.
C16_ReverseSortStable ==
    constructed =>
      \A key \in MinterArgs, py \in Pythons :
        LET r == sort(_seqs, _keys, key, TRUE, py)
        IN /\ r.err = "none" =>
                stable(sort_items(_seqs, _keys, key), sort_items(r.seqs, r.keys, key))
           /\ (key = "len" /\ (has_keys(_keys) => Len(_keys[1]) = Len(_seqs)))
                => r = Result(_seqs, _keys, "none")

\* C16 witness: two different rows of equal length without keys;
\* sort('len', reverse=True) ties them and keeps their order.
C16_Witness ==
    /\ last.op = "sort" /\ last.err = "none"
    /\ ~has_keys(_keys) /\ Len(_seqs) = 2 /\ _seqs[1] # _seqs[2]
    /\ _seqs[1].id < _seqs[2].id
    /\ sort(_seqs, _keys, "len", TRUE, "py3") = Result(_seqs, _keys, "none")

\* the object a call of sort leaves
sorted_by_keys(obj, py) ==
    LET r == sort(obj.seqs, obj.keys, NoMinter, FALSE, py)
    IN [seqs |-> r.seqs, keys |-> r.keys, err |-> r.err, metadata |-> obj.metadata,
        positional_metadata |-> obj.positional_metadata]

\* the matrix has keys, rows, and no row twice
keyed_distinct_rows ==
    /\ constructed /\ has_keys(_keys) /\ Len(_seqs) > 0
    /\ \A i, j \in 1..Len(_seqs) : i # j => _seqs[i] # _seqs[j]

\* C17 as stated: for a matrix with keys and distinct rows, whatever the order
\* in which the dictionary iterates, from_dict(to_dict(M)) has the (key, row)
\* pairs of M, and after sort() on both the two compare equal.
C17_RoundTripEqual ==
    keyed_distinct_rows =>
      LET d == to_dict(_seqs, _keys).value
      IN \A order \in Orders(DOMAIN d), py \in Pythons :
           LET M2 == from_dict(d, order)
               s1 == sorted_by_keys(this, py)
               s2 == sorted_by_keys(M2, py)
           IN /\ M2.err = "none"
              /\ pairs(M2.seqs, M2.keys) = pairs(_seqs, _keys)
              /\ s1.err = "none" /\ s2.err = "none"
              /\ __eq__(s1, s2)

\* C17 amended: for a matrix with keys and distinct rows, from_dict(to_dict(M))
\* has the (key, row) pairs of M; whenever sort() returns on M it returns on
\* the round-tripped matrix as well, the two then have the same rows and the
\* same keys in the same order, and they compare equal exactly when M carries
\* neither metadata nor positional metadata.
C17_RoundTripKeepsPairs ==
    keyed_distinct_rows =>
      LET d == to_dict(_seqs, _keys).value
      IN \A order \in Orders(DOMAIN d), py \in Pythons :
           LET M2 == from_dict(d, order)
               s1 == sorted_by_keys(this, py)
               s2 == sorted_by_keys(M2, py)
           IN /\ M2.err = "none"
              /\ pairs(M2.seqs, M2.keys) = pairs(_seqs, _keys)
              /\ s1.err = "none" =>
                   /\ s2.err = "none"
                   /\ s1.seqs = s2.seqs /\ s1.keys = s2.keys
                   /\ __eq__(s1, s2) <=> (/\ _metadata = NoMetadata
                                          /\ _positional_metadata = NoPositionalMetadata)

\* C17 witness: to_dict has returned the dictionary of a matrix with two
\* different rows under the keys 2, 1 and no metadata; from_dict of it, read in
\* the order 1, 2, has the rows the other way round, and after sort() the two
\* are equal.
C17_Witness ==
    /\ last.op = "to_dict" /\ last.err = "none"
    /\ keyed_distinct_rows /\ Len(_seqs) = 2 /\ _keys[1] = <<2, 1>>
    /\ _metadata = NoMetadata /\ _positional_metadata = NoPositionalMetadata
    /\ DOMAIN ret = {1, 2}
    /\ LET M2 == from_dict(ret, <<1, 2>>)
       IN /\ M2.err = "none" /\ M2.seqs = <<_seqs[2], _seqs[1]>>
          /\ ~__eq__(this, M2)
          /\ __eq__(sorted_by_keys(this, "py3"), sorted_by_keys(M2, "py3"))

\* for each position the number of rows with a gap there, and for each row the
\* number of its gaps
gaps_per_position ==
    [i \in 1..shape(_seqs).position |->
       Cardinality({j \in 1..Len(_seqs) : _seqs[j].chars[i] \in GapChars})]
gaps_per_row ==
    [j \in 1..Len(_seqs) |->
       Cardinality({i \in 1..Len(_seqs[j].chars) : _seqs[j].chars[i] \in GapChars})]

\* a call of gap_frequencies with relative=False has returned
counted(axes) ==
    /\ last.op = "gap_frequencies" /\ last.err = "none"
    /\ last.axis \in axes /\ ~last.relative

\* C18: gap_frequencies without axis argument and with relative=False returns
\* one value per position, the i-th being the number of rows with a gap at
\* position i; for the other axis ('position') it returns one value per row,
\* the j-th being the number of gaps in row j.
C18_GapCountsPerAxis ==
    /\ counted({Omitted}) =>
         (Len(ret) = shape(_seqs).position /\ ret = gaps_per_position)
    /\ counted({"position"}) =>
         (Len(ret) = shape(_seqs).sequence /\ ret = gaps_per_row)

\* C18 witness: gap_frequencies() has returned 2, 1 on the rows '-A', '--',
\* where gap_frequencies(axis='position') returns 1, 2.
C18_Witness ==
    /\ counted({Omitted})
    /\ Len(_seqs) = 2 /\ _seqs[1].chars = <<"-", "A">> /\ _seqs[2].chars = <<"-", "-">>
    /\ ret = <<2, 1>>
    /\ gap_frequencies(_seqs, "position", FALSE) = Returned(<<1, 2>>)

\* C19 as stated: gap_frequencies(axis='sequence') returns one value per row,
\* the number of gaps of that row.
C19_SequenceAxisPerRow ==
    counted({"sequence"}) =>
      (Len(ret) = shape(_seqs).sequence /\ ret = gaps_per_row)

\* C19 amended: gap_frequencies(axis='sequence'), like axis=0, returns one
\* value per position, the number of rows with a gap at that position; one
\* value per row is what axis='position' and axis=1 return.
C19_SequenceAxisPerPosition ==
    /\ counted({"sequence", "0"}) =>
         (Len(ret) = shape(_seqs).position /\ ret = gaps_per_position)
    /\ counted({"1"}) =>
         (Len(ret) = shape(_seqs).sequence /\ ret = gaps_per_row)

\* C19 witness: gap_frequencies(axis='sequence') has returned 0, 1 on the one
\* row 'A-', which holds one gap.
C19_Witness ==
    /\ counted({"sequence"})
    /\ Len(_seqs) = 1 /\ _seqs[1].chars = <<"A", "-">>
    /\ ret = <<0, 1>> /\ gaps_per_row = <<1>>

\* C20: in every reachable state, positional metadata that is attached has one
\* entry per position of the matrix, also after the append that gives a matrix
\* constructed without rows and with empty positional metadata its first row.
C20_PositionalMetadataLength ==
    has_positional_metadata(_positional_metadata) =>
      _positional_metadata[1] = _positional_metadata_axis_len_(_seqs)

\* the constructor has returned a matrix made from zero rows
constructed_empty ==
    last.op = "__init__" /\ last.err = "none" /\ Len(_seqs) = 0

\* the constructor called without metadata on zero rows
init_empty(minter, keys) ==
    __init__(<< >>, NoMetadata, NoPositionalMetadata, minter, keys)

\* C21 as stated: a matrix constructed from zero rows has keys only when an
\* empty list of keys was given, and is unkeyed in every other case.
C21_EmptyUnkeyedUnlessKeys ==
    constructed_empty => (has_keys(_keys) <=> last.how = "keys")

\* C21 amended: folding zero rows raises nothing; the empty matrix is unkeyed
\* when neither keys nor minter were given, and has an empty key array when
\* an empty list of keys or a minter was given (the minter is applied to no
\* row); a non-empty list of keys, or keys together with a minter, raise
\* ValueError.
C21_EmptyKeyedByKeysOrMinter ==
    /\ constructed_empty =>
         /\ has_keys(_keys) <=> last.how \in {"keys", "minter"}
         /\ has_keys(_keys) => _keys[1] = << >>
    /\ last.op = "new" =>
         /\ add_all(<< >>, 0) = Result(<< >>, NoKeys, "none")
         /\ init_empty(NoMinter, NoKeys).err = "none"
         /\ init_empty(NoMinter, NoKeys).keys = NoKeys
         /\ init_empty(NoMinter, << << >> >>).err = "none"
         /\ init_empty(NoMinter, << << >> >>).keys = << << >> >>
         /\ \A minter \in Minters :
              /\ init_empty(minter, NoKeys).err = "none"
              /\ init_empty(minter, NoKeys).keys = << << >> >>
              /\ \A keys \in KeysArgs \ {NoKeys} :
                   init_empty(minter, keys).err = "ValueError"
         /\ \A keys \in KeysArgs \ {NoKeys} :
              Len(keys[1]) > 0 => init_empty(NoMinter, keys).err = "ValueError"

\* C21 witness: the constructor was given zero rows and a minter; the matrix
\* has no rows and an empty key array.
C21_Witness ==
    /\ constructed_empty /\ last.how = "minter"
    /\ has_keys(_keys) /\ _keys[1] = << >>

\* C22: a matrix without rows has shape (0, 0), dtype None and is falsy; a
\* matrix is truthy exactly when it has positions, so rows of length zero make
\* it falsy, and no state has zero rows and positions.  A first row appended
\* to an empty matrix is not checked for its length and gives the matrix its
\* dtype and its number of positions; a second append returns only for a row
\* of that dtype and length.
C22_EmptyMatrix ==
    /\ Len(_seqs) = 0 =>
         /\ shape(_seqs) = [sequence |-> 0, position |-> 0]
         /\ dtype(_seqs) = NoDtype
         /\ ~__bool__(_seqs)
    /\ __bool__(_seqs) <=> shape(_seqs).position > 0
    /\ (\A i \in 1..Len(_seqs) : Len(_seqs[i].chars) = 0) => ~__bool__(_seqs)
    /\ ~(shape(_seqs).sequence = 0 /\ shape(_seqs).position > 0)
    /\ (constructed /\ Len(_seqs) = 0) =>
         \A sequence \in Rows :
           /\ (sequence.dtype \in IUPACSequence /\ ~has_keys(_keys))
                => append(_seqs, _keys, sequence, NoMinter, None).err = "none"
           /\ \A minter \in MinterArgs, key \in KeyVals :
                LET r == append(_seqs, _keys, sequence, minter, key)
                IN r.err = "none" =>
                     /\ r.seqs = <<sequence>>
                     /\ dtype(r.seqs) = sequence.dtype
                     /\ shape(r.seqs) = [sequence |-> 1, position |-> Len(sequence.chars)]
                     /\ \A second \in Rows, minter2 \in MinterArgs, key2 \in KeyVals :
                          append(r.seqs, r.keys, second, minter2, key2).err = "none"
                            => /\ second.dtype = sequence.dtype
                               /\ Len(second.chars) = Len(sequence.chars)

\* C22 witness: a first row of one position was appended to an empty matrix,
\* which is now truthy with dtype and shape taken from that row.
C22_Witness ==
    /\ last.op = "append" /\ last.err = "none"
    /\ Len(_seqs) = 1 /\ Len(_seqs[1].chars) = 1
    /\ __bool__(_seqs) /\ dtype(_seqs) = _seqs[1].dtype
    /\ shape(_seqs) = [sequence |-> 1, position |-> 1]

\* the calls that store a new key array
KeyWriters == {"__init__", "reindex", "keys.setter", "keys.deleter", "append", "sort"}

relative_call(axes) ==
    last.op = "gap_frequencies" /\ last.axis \in axes /\ last.relative

\* C24: gap_frequencies with relative=True raises nothing for a valid axis and
\* returns each count divided by the length of the folded axis: the number of
\* rows for the values per position, the number of positions for the values
\* per row; when that length is zero every value returned is nan.
C24_RelativeGapFrequencies ==
    /\ relative_call({Omitted, "sequence", "0"}) =>
         /\ last.err = "none"
         /\ ret = [i \in 1..shape(_seqs).position |->
                     divide(gaps_per_position[i], shape(_seqs).sequence)]
         /\ shape(_seqs).sequence = 0 => \A i \in 1..Len(ret) : ret[i] = NaN
    /\ relative_call({"position", "1"}) =>
         /\ last.err = "none"
         /\ ret = [j \in 1..shape(_seqs).sequence |->
                     divide(gaps_per_row[j], shape(_seqs).position)]
         /\ shape(_seqs).position = 0 => \A j \in 1..Len(ret) : ret[j] = NaN

\* C24 witness: gap_frequencies(axis='position', relative=True) on two rows of
\* length zero has returned nan, nan.
C24_Witness ==
    /\ relative_call({"position"}) /\ last.err = "none"
    /\ Len(_seqs) = 2 /\ shape(_seqs).position = 0
    /\ ret = <<NaN, NaN>>

\* what the last comparison was made with
other_is_matrix == isinstance(last.other)
same_keys(keys) ==
    \/ ~has_keys(_keys) /\ ~has_keys(keys)
    \/ has_keys(_keys) /\ has_keys(keys) /\ _keys[1] = keys[1]

\* C25: msa == other is true exactly when other is a matrix with the same rows
\* in the same order, with keys absent on both sides or present and equal in
\* order on both, and with equal metadata and positional metadata; so a keyed
\* matrix never equals an unkeyed one; msa != other is the negation of
\* msa == other.
C25_EqualityOfMatrices ==
    /\ last.op = "__eq__" =>
         /\ ret = IF other_is_matrix
                  THEN /\ _seqs = last.other.seqs
                       /\ same_keys(last.other.keys)
                       /\ _metadata = last.other.metadata
                       /\ _positional_metadata = last.other.positional_metadata
                  ELSE FALSE
         /\ (other_is_matrix /\ has_keys(_keys) # has_keys(last.other.keys)) => ~ret
    /\ last.op = "__ne__" => ret = ~__eq__(this, last.other)

\* the empty matrix keyed with an empty list of keys was compared with the
\* empty matrix without keys, and found different
C25_Witness ==
    /\ last.op = "__eq__" /\ other_is_matrix
    /\ _seqs = << >> /\ last.other.seqs = << >>
    /\ _keys = << << >> >> /\ last.other.keys = NoKeys
    /\ _metadata = last.other.metadata
    /\ _positional_metadata = last.other.positional_metadata
    /\ ret = FALSE

\* the calls that only read
ReadOps ==
    {"shape", "dtype", "__len__", "has_keys", "keys.getter", "__contains__",
     "__iter__", "__eq__", "__ne__", "to_dict", "gap_frequencies", "_get_position"}

\* C26: a call of shape, dtype, len, has_keys, the keys getter, `in`, iteration,
\* == or !=, to_dict, gap_frequencies or _get_position leaves the rows and the
\* keys as they were, whether it returns or raises.
C26_ReadsNeverMutate ==
    [][last'.op \in ReadOps => UNCHANGED <<_seqs, _keys>>]_vars

\* a read that raised on a matrix with rows and keys
C26_Witness ==
    /\ last.op = "_get_position" /\ last.err = "IndexError"
    /\ Len(_seqs) = 2 /\ has_keys(_keys)

====
